---- MODULE Spec2Model ----
(***************************************************************************)
(* Model of the build server in src/main.go: buildHandler and the pipeline *)
(* goroutine it spawns, LogStreamer.Write (run by the two output copiers   *)
(* of os/exec for cmd.Stdout and cmd.Stderr), logsHandler, the clients map *)
(* guarded by mu, and the builds table behind saveBuild / getLastBuild.    *)
(*                                                                         *)
(* Environment assumptions: uuid.New() never repeats a value; a websocket  *)
(* peer keeps its connection open, so WriteMessage on a connection the     *)
(* server has not closed delivers the frame; the output of an external     *)
(* process is never the literal text of the sentinel.                      *)
(***************************************************************************)
EXTENDS Integers, Sequences, FiniteSets, TLC

MaxBuilds == 2
MaxConns == 2
MaxChunks == 2
MaxShared == 1

Ids == 1..MaxBuilds
Conns == 1..MaxConns
NoConn == 0
Streams == {"stdout", "stderr"}
Urls == {"repoA"}
Free == <<"free", 0, "">>

\* what `git rev-parse HEAD` may print on success
CommitOutputs == { <<"a", "\n">>, <<" ", "b", "\n">> }

VARIABLES
    hpc,        \* buildHandler position of the request that minted id b
    response,   \* the BuildResponse encoded for that request
    repoUrl,    \* req.RepoUrl
    pc,         \* position of the pipeline goroutine
    proc,       \* external process of the current cmd.Run
    failedAt,   \* the step whose error made the goroutine return
    commitID,   \* the captured variable commitID (line 126)
    imageName,  \* the --tag argument (line 149)
    images,     \* tags present in the local docker image store
    workspace,  \* whether /tmp/<buildId> exists
    emitted,    \* number of chunks the processes of build b have written
    pipe,       \* chunks written by the process, not yet copied
    wpc,        \* position of each output copier inside Write
    copyErr,    \* a copier saw Write return a short count or an error
    mu,         \* owner of the mutex
    clients,    \* the registry map
    cpc,        \* logsHandler position for connection c
    target,     \* the buildId path parameter of connection c
    received,   \* frames written to connection c
    closed,     \* conn.Close() was called on c
    builds,     \* rows of table builds, oldest first
    steps,      \* history: the steps the pipeline has finished
    regAt,      \* history: emitted[target[c]] when c was registered
    regEarly,   \* history: c was registered before its build's CleaningUp
    lastReg,    \* history: the connection of the latest registration for b
    persisted,  \* history: ids whose store write succeeded, in that order
    deployed    \* the last deploy request: its commit, tag and outcome

vars == <<hpc, response, repoUrl, pc, proc, failedAt, commitID, imageName,
          images, workspace, emitted, pipe, wpc, copyErr, mu, clients, cpc,
          target, received, closed, builds, steps, regAt, regEarly,
          lastReg, persisted, deployed>>

handlerVars == <<hpc, response, repoUrl, deployed>>
connVars == <<cpc, target, received, closed, regAt, regEarly, lastReg>>
storeVars == <<builds, images, persisted>>

----------------------------------------------------------------------------
(* Pure helpers *)

IsSpace(ch) == ch \in {" ", "\n", "\t", "\r"}

RECURSIVE TrimLeft(_)
TrimLeft(s) ==
    IF s = <<>> THEN <<>>
    ELSE IF IsSpace(Head(s)) THEN TrimLeft(Tail(s)) ELSE s

RECURSIVE TrimRight(_)
TrimRight(s) ==
    IF s = <<>> THEN <<>>
    ELSE IF IsSpace(s[Len(s)]) THEN TrimRight(SubSeq(s, 1, Len(s) - 1)) ELSE s

\* strings.TrimSpace
TrimSpace(s) == TrimRight(TrimLeft(s))

AppName == <<"m", "y", "a", "p", "p">>

\* fmt.Sprintf("myapp:%s", commitID) in the pipeline
BuildImageName(c) == AppName \o <<":">> \o c

\* faulty variant: the deploy step joins name and commit with a dash
DeployImageNameDash(c) == AppName \o <<"-">> \o c

\* fmt.Sprintf("myapp:%s", req.CommitID) in deployHandler
DeployImageName(c) == AppName \o <<":">> \o c

Sentinel == [kind |-> "BUILD_COMPLETE", build |-> 0, seq |-> 0, src |-> ""]
Chunk(b, k, s) == [kind |-> "log", build |-> b, seq |-> k, src |-> s]

NoResponse == [BuildId |-> 0, CommitID |-> <<"?">>]

NoDeploy == [commit |-> <<"?">>, image |-> <<>>, ok |-> FALSE]

\* req.CommitID values sent to the deploy endpoint: the commits a build
\* can resolve, and one no build has resolved
DeployCommits == {TrimSpace(o) : o \in CommitOutputs} \cup {<<"z">>}

\* faulty variant: the response reads the captured commitID
MakeResponseCaptured(b, commit) == [BuildId |-> b, CommitID |-> commit]

\* BuildResponse{BuildId: buildId}: CommitID keeps its zero value
MakeResponse(b, commit) == [BuildId |-> b, CommitID |-> <<>>]

\* conn.WriteMessage: a frame reaches the peer unless the server closed conn
WriteMessage(rc, cl, c, m) ==
    IF cl[c] THEN rc ELSE [rc EXCEPT ![c] = Append(@, m)]

\* faulty variant: Write reports an error when no subscriber is registered
WriteResultMiss(cm, b) == [full |-> TRUE, err |-> cm[b] = NoConn]

\* result of LogStreamer.Write: (len(p), nil)
WriteResult(cm, b) == [full |-> TRUE, err |-> FALSE]

\* faulty variant: the lock is taken without waiting for its holder
CanLockAlways(m) == TRUE

\* mu.Lock() returns only when no goroutine holds mu
CanLock(m) == m = Free

\* faulty variant: the lock is not released
UnlockMissing(m) == m

\* mu.Unlock()
Unlock(m) == Free

\* faulty variant: an existing entry is kept
registerKeepFirst(cm, b, c) == IF cm[b] # NoConn THEN cm ELSE [cm EXCEPT ![b] = c]

\* clients[buildId] = conn
register(cm, b, c) == [cm EXCEPT ![b] = c]

\* faulty variant: the completion step clears the whole map
deregisterAll(cm, b) == [x \in DOMAIN cm |-> NoConn]

\* delete(clients, buildId)
deregister(cm, b) == [cm EXCEPT ![b] = NoConn]

\* faulty variant: the row is written without the resolved commit
saveBuildNoCommit(tbl, b, url, commit) ==
    Append(tbl, [id |-> b, repo_url |-> url, commit_id |-> <<>>])

\* INSERT INTO builds (id, repo_url, commit_id)
saveBuild(tbl, b, url, commit) ==
    Append(tbl, [id |-> b, repo_url |-> url, commit_id |-> commit])

\* SELECT id, commit_id FROM builds ORDER BY timestamp DESC LIMIT 1
getLastBuild(tbl) ==
    IF tbl = <<>> THEN [err |-> TRUE, BuildId |-> 0, CommitID |-> <<>>]
    ELSE [err |-> FALSE, BuildId |-> tbl[Len(tbl)].id,
          CommitID |-> tbl[Len(tbl)].commit_id]

----------------------------------------------------------------------------
Init ==
    /\ hpc = [b \in Ids |-> "idle"]
    /\ response = [b \in Ids |-> NoResponse]
    /\ repoUrl = [b \in Ids |-> ""]
    /\ pc = [b \in Ids |-> "none"]
    /\ proc = [b \in Ids |-> "idle"]
    /\ failedAt = [b \in Ids |-> "none"]
    /\ commitID = [b \in Ids |-> <<>>]
    /\ imageName = [b \in Ids |-> <<>>]
    /\ images = {}
    /\ workspace = [b \in Ids |-> FALSE]
    /\ emitted = [b \in Ids |-> 0]
    /\ pipe = [b \in Ids |-> [s \in Streams |-> <<>>]]
    /\ wpc = [b \in Ids |-> [s \in Streams |-> "idle"]]
    /\ copyErr = [b \in Ids |-> FALSE]
    /\ mu = Free
    /\ clients = [b \in Ids |-> NoConn]
    /\ cpc = [c \in Conns |-> "none"]
    /\ target = [c \in Conns |-> 0]
    /\ received = [c \in Conns |-> <<>>]
    /\ closed = [c \in Conns |-> FALSE]
    /\ builds = <<>>
    /\ steps = [b \in Ids |-> <<>>]
    /\ regAt = [c \in Conns |-> 0]
    /\ regEarly = [c \in Conns |-> FALSE]
    /\ lastReg = [b \in Ids |-> NoConn]
    /\ persisted = <<>>
    /\ deployed = NoDeploy

----------------------------------------------------------------------------
(* buildHandler, the request side *)

\* lines 120-131: decode the request, mint the id (uuid.New() yields a value
\* not used before; ids are numbered in the order they are minted), start
\* the goroutine, whose first statement starts git clone
BuildRequest(b, url) ==
    /\ hpc[b] = "idle"
    /\ \A d \in Ids : d < b => hpc[d] # "idle"
    /\ hpc' = [hpc EXCEPT ![b] = "spawned"]
    /\ repoUrl' = [repoUrl EXCEPT ![b] = url]
    /\ pc' = [pc EXCEPT ![b] = "clone"]
    /\ proc' = [proc EXCEPT ![b] = "running"]
    /\ UNCHANGED <<response, failedAt, commitID, imageName,
                   workspace, emitted, pipe, wpc, copyErr, mu, clients, steps>>
    /\ UNCHANGED <<connVars, storeVars, deployed>>

\* lines 178-179: encode the response
BuildRespond(b) ==
    /\ hpc[b] = "spawned"
    /\ hpc' = [hpc EXCEPT ![b] = "responded"]
    /\ response' = [response EXCEPT ![b] = MakeResponse(b, commitID[b])]
    /\ UNCHANGED <<repoUrl, pc, proc, failedAt, commitID, imageName,
                   workspace, emitted, pipe, wpc, copyErr, mu, clients, steps>>
    /\ UNCHANGED <<connVars, storeVars, deployed>>

----------------------------------------------------------------------------
(* The external process of a streaming step (git clone, docker buildx) *)

Streaming(b) == pc[b] \in {"clone", "build"}

RECURSIVE SumEmitted(_)
SumEmitted(n) == IF n = 0 THEN 0 ELSE emitted[n] + SumEmitted(n - 1)

\* the process writes one chunk to its stdout or its stderr; a build's
\* processes write at most MaxChunks chunks, all builds together at most
\* budget
ProcEmit(b, s, budget) ==
    /\ Streaming(b)
    /\ proc[b] = "running"
    /\ emitted[b] < MaxChunks
    /\ SumEmitted(MaxBuilds) < budget
    /\ emitted' = [emitted EXCEPT ![b] = @ + 1]
    /\ pipe' = [pipe EXCEPT ![b][s] = Append(@, emitted[b] + 1)]
    /\ UNCHANGED <<pc, proc, failedAt, commitID, imageName, workspace, wpc,
                   copyErr, mu, clients, steps>>
    /\ UNCHANGED <<handlerVars, connVars, storeVars>>

\* the process exits (a launch error is an exit with nothing done)
ProcExit(b, ok, dirLeft) ==
    /\ Streaming(b)
    /\ proc[b] = "running"
    /\ proc' = [proc EXCEPT ![b] = IF ok THEN "ok" ELSE "fail"]
    /\ IF pc[b] = "clone"
       THEN /\ workspace' = [workspace EXCEPT ![b] = ok \/ dirLeft]
            /\ images' = images
       ELSE /\ workspace' = workspace
            /\ images' = IF ok THEN images \cup {imageName[b]} ELSE images
    /\ UNCHANGED <<pc, failedAt, commitID, imageName, emitted, pipe, wpc,
                   copyErr, mu, clients, steps, builds, persisted>>
    /\ UNCHANGED <<handlerVars, connVars>>

----------------------------------------------------------------------------
(* LogStreamer.Write, called by the copier of stream s of build b *)

\* line 51: mu.Lock()
WriteLock(b, s) ==
    /\ Streaming(b)
    /\ wpc[b][s] = "idle"
    /\ pipe[b][s] # <<>>
    /\ CanLock(mu)
    /\ mu' = <<"write", b, s>>
    /\ wpc' = [wpc EXCEPT ![b][s] = "locked"]
    /\ UNCHANGED <<pc, proc, failedAt, commitID, imageName, workspace,
                   emitted, pipe, copyErr, clients, steps>>
    /\ UNCHANGED <<handlerVars, connVars, storeVars>>

\* faulty variant: a chunk written with no subscriber is kept for the next
\* connection to be opened
WriteDeliverKept(rc, cm, cl, b, m) ==
    IF cm[b] # NoConn THEN WriteMessage(rc, cl, cm[b], m)
    ELSE LET unopened == {c \in Conns : cpc[c] = "none"}
         IN IF unopened = {} THEN rc
            ELSE WriteMessage(rc, cl,
                     CHOOSE c \in unopened : \A d \in unopened : c <= d, m)

\* what lines 53-55 write to the connections
WriteDeliver(rc, cm, cl, b, m) ==
    IF cm[b] # NoConn THEN WriteMessage(rc, cl, cm[b], m) ELSE rc

\* lines 53-57, with the deferred mu.Unlock()
WriteBody(b, s) ==
    /\ wpc[b][s] = "locked"
    /\ LET m == Chunk(b, Head(pipe[b][s]), s)
           r == WriteResult(clients, b)
       IN /\ received' = WriteDeliver(received, clients, closed, b, m)
          /\ copyErr' = [copyErr EXCEPT ![b] = @ \/ ~r.full \/ r.err]
    /\ pipe' = [pipe EXCEPT ![b][s] = Tail(@)]
    /\ wpc' = [wpc EXCEPT ![b][s] = "idle"]
    /\ mu' = Unlock(mu)
    /\ UNCHANGED <<pc, proc, failedAt, commitID, imageName, workspace,
                   emitted, clients, steps>>
    /\ UNCHANGED <<handlerVars, cpc, target, closed, regAt, regEarly, lastReg,
                   storeVars>>

----------------------------------------------------------------------------
(* The pipeline goroutine, lines 129-177 *)

\* cmd.Run returns once the process has exited and both copiers are done
RunDone(b) ==
    /\ proc[b] \in {"ok", "fail"}
    /\ \A s \in Streams : pipe[b][s] = <<>> /\ wpc[b][s] = "idle"

\* faulty variant: the error of cmd.Run is not checked
RunErrIgnored(b) == FALSE

\* err of cmd.Run: the exit status, or the error of a copier
RunErr(b) == proc[b] = "fail" \/ copyErr[b]

StepRec(b, name) == [step |-> name, exit |-> proc[b], err |-> RunErr(b)]

\* lines 134-137
CloneReturn(b) ==
    /\ pc[b] = "clone"
    /\ RunDone(b)
    /\ steps' = [steps EXCEPT ![b] = Append(@, StepRec(b, "clone"))]
    /\ proc' = [proc EXCEPT ![b] = "idle"]
    /\ IF RunErr(b)
       THEN /\ pc' = [pc EXCEPT ![b] = "done"]
            /\ failedAt' = [failedAt EXCEPT ![b] = "clone"]
       ELSE /\ pc' = [pc EXCEPT ![b] = "resolve"]
            /\ failedAt' = failedAt
    /\ UNCHANGED <<commitID, imageName, workspace, emitted, pipe, wpc,
                   copyErr, mu, clients>>
    /\ UNCHANGED <<handlerVars, connVars, storeVars>>

\* lines 140-152: git rev-parse HEAD, then the image build is started
ResolveCommit(b, ok, out) ==
    /\ pc[b] = "resolve"
    /\ steps' = [steps EXCEPT ![b] = Append(@,
                    [step |-> "resolve",
                     exit |-> IF ok THEN "ok" ELSE "fail", err |-> ~ok])]
    /\ IF ok
       THEN /\ commitID' = [commitID EXCEPT ![b] = TrimSpace(out)]
            /\ imageName' = [imageName EXCEPT ![b] =
                                BuildImageName(TrimSpace(out))]
            /\ pc' = [pc EXCEPT ![b] = "build"]
            /\ proc' = [proc EXCEPT ![b] = "running"]
            /\ failedAt' = failedAt
       ELSE /\ pc' = [pc EXCEPT ![b] = "done"]
            /\ failedAt' = [failedAt EXCEPT ![b] = "resolve"]
            /\ UNCHANGED <<commitID, imageName, proc>>
    /\ UNCHANGED <<workspace, emitted, pipe, wpc, copyErr, mu, clients>>
    /\ UNCHANGED <<handlerVars, connVars, storeVars>>

\* lines 153-156
BuildReturn(b) ==
    /\ pc[b] = "build"
    /\ RunDone(b)
    /\ steps' = [steps EXCEPT ![b] = Append(@, StepRec(b, "build"))]
    /\ proc' = [proc EXCEPT ![b] = "idle"]
    /\ IF RunErr(b)
       THEN /\ pc' = [pc EXCEPT ![b] = "done"]
            /\ failedAt' = [failedAt EXCEPT ![b] = "build"]
       ELSE /\ pc' = [pc EXCEPT ![b] = "persist"]
            /\ failedAt' = failedAt
    /\ UNCHANGED <<commitID, imageName, workspace, emitted, pipe, wpc,
                   copyErr, mu, clients>>
    /\ UNCHANGED <<handlerVars, connVars, storeVars>>

\* faulty variant: a store error makes the goroutine return
AfterPersistReturn(ok) == IF ok THEN "cleanup" ELSE "done"

\* faulty variant: the removal of the workspace is skipped
AfterPersistSkip(ok) == "complete"

\* lines 159-164: whatever saveBuild returns, the cleanup comes next
AfterPersist(ok) == "cleanup"

\* lines 164-169: whatever os.RemoveAll returns, the completion comes next
AfterCleanup(ok) == "complete"

\* lines 159-161: the store error is logged and ignored
Persist(b, ok) ==
    /\ pc[b] = "persist"
    /\ builds' = IF ok THEN saveBuild(builds, b, repoUrl[b], commitID[b])
                 ELSE builds
    /\ persisted' = IF ok THEN Append(persisted, b) ELSE persisted
    /\ steps' = [steps EXCEPT ![b] = Append(@,
                    [step |-> "persist",
                     exit |-> IF ok THEN "ok" ELSE "fail", err |-> ~ok])]
    /\ pc' = [pc EXCEPT ![b] = AfterPersist(ok)]
    /\ UNCHANGED <<proc, failedAt, commitID, imageName, images, workspace,
                   emitted, pipe, wpc, copyErr, mu, clients>>
    /\ UNCHANGED <<handlerVars, connVars>>

\* lines 164-166: the removal error is logged and ignored
Cleanup(b, ok) ==
    /\ pc[b] = "cleanup"
    /\ workspace' = [workspace EXCEPT ![b] = IF ok THEN FALSE ELSE @]
    /\ steps' = [steps EXCEPT ![b] = Append(@,
                    [step |-> "cleanup",
                     exit |-> IF ok THEN "ok" ELSE "fail", err |-> ~ok])]
    /\ pc' = [pc EXCEPT ![b] = AfterCleanup(ok)]
    /\ UNCHANGED <<proc, failedAt, commitID, imageName, emitted, pipe, wpc,
                   copyErr, mu, clients>>
    /\ UNCHANGED <<handlerVars, connVars, storeVars>>

\* line 169: mu.Lock()
CompleteLock(b) ==
    /\ pc[b] = "complete"
    /\ CanLock(mu)
    /\ mu' = <<"complete", b, "">>
    /\ pc' = [pc EXCEPT ![b] = "completeLocked"]
    /\ UNCHANGED <<proc, failedAt, commitID, imageName, workspace, emitted,
                   pipe, wpc, copyErr, clients, steps>>
    /\ UNCHANGED <<handlerVars, connVars, storeVars>>

\* faulty variant: the entry is not deleted
CompleteClientsKept(cm, b) == cm

\* lines 170-174 on the map
CompleteClients(cm, b) == IF cm[b] # NoConn THEN deregister(cm, b) ELSE cm

\* lines 170-171 on the connections
CompleteSend(rc, cm, cl, b) ==
    IF cm[b] # NoConn THEN WriteMessage(rc, cl, cm[b], Sentinel) ELSE rc

\* line 172
CompleteClose(cl, cm, b) ==
    IF cm[b] # NoConn THEN [cl EXCEPT ![cm[b]] = TRUE] ELSE cl

\* lines 170-175
CompleteBody(b) ==
    /\ pc[b] = "completeLocked"
    /\ received' = CompleteSend(received, clients, closed, b)
    /\ closed' = CompleteClose(closed, clients, b)
    /\ clients' = CompleteClients(clients, b)
    /\ mu' = Unlock(mu)
    /\ pc' = [pc EXCEPT ![b] = "done"]
    /\ steps' = [steps EXCEPT ![b] = Append(@,
                    [step |-> "complete", exit |-> "ok", err |-> FALSE])]
    /\ UNCHANGED <<proc, failedAt, commitID, imageName, workspace, emitted,
                   pipe, wpc, copyErr>>
    /\ UNCHANGED <<handlerVars, cpc, target, regAt, regEarly, lastReg, storeVars>>

----------------------------------------------------------------------------
(* logsHandler, lines 220-233 *)

\* connections are numbered in the order of their upgrade
NextConn(c) == cpc[c] = "none" /\ \A d \in Conns : d < c => cpc[d] # "none"

\* the pipeline has reached CleaningUp, or has returned
PastPersist(b) == pc[b] \in {"cleanup", "complete", "completeLocked", "done"}

\* lines 221-228 with a failed upgrade: the handler returns and no
\* connection exists
UpgradeRefused(b) ==
    /\ \E c \in Conns : NextConn(c)
    /\ UNCHANGED vars

\* lines 221-230: the upgrade succeeds, then mu.Lock()
RegisterLock(c, b) ==
    /\ NextConn(c)
    /\ CanLock(mu)
    /\ mu' = <<"register", c, "">>
    /\ cpc' = [cpc EXCEPT ![c] = "locked"]
    /\ target' = [target EXCEPT ![c] = b]
    /\ UNCHANGED <<pc, proc, failedAt, commitID, imageName, workspace,
                   emitted, pipe, wpc, copyErr, clients, steps>>
    /\ UNCHANGED <<handlerVars, received, closed, regAt, regEarly, lastReg,
                   storeVars>>

\* lines 231-232
RegisterBody(c) ==
    /\ cpc[c] = "locked"
    /\ clients' = register(clients, target[c], c)
    /\ mu' = Unlock(mu)
    /\ cpc' = [cpc EXCEPT ![c] = "registered"]
    /\ regAt' = [regAt EXCEPT ![c] = emitted[target[c]]]
    /\ regEarly' = [regEarly EXCEPT ![c] = ~PastPersist(target[c])]
    /\ lastReg' = [lastReg EXCEPT ![target[c]] = c]
    /\ UNCHANGED <<pc, proc, failedAt, commitID, imageName, workspace,
                   emitted, pipe, wpc, copyErr, steps>>
    /\ UNCHANGED <<handlerVars, target, received, closed, storeVars>>

----------------------------------------------------------------------------
\* the steps of the builds with ids in I and of the subscribers to them
NextFor(I, budget) ==
    \/ \E b \in I, url \in Urls : BuildRequest(b, url)
    \/ \E b \in I : BuildRespond(b)
    \/ \E b \in I, s \in Streams : ProcEmit(b, s, budget)
    \/ \E b \in I, ok \in BOOLEAN, dirLeft \in BOOLEAN : ProcExit(b, ok, dirLeft)
    \/ \E b \in I, s \in Streams : WriteLock(b, s)
    \/ \E b \in I, s \in Streams : WriteBody(b, s)
    \/ \E b \in I : CloneReturn(b)
    \/ \E b \in I, ok \in BOOLEAN, out \in CommitOutputs : ResolveCommit(b, ok, out)
    \/ \E b \in I : BuildReturn(b)
    \/ \E b \in I, ok \in BOOLEAN : Persist(b, ok)
    \/ \E b \in I, ok \in BOOLEAN : Cleanup(b, ok)
    \/ \E b \in I : CompleteLock(b)
    \/ \E b \in I : CompleteBody(b)
    \/ \E b \in I : UpgradeRefused(b)
    \/ \E c \in Conns, b \in I : RegisterLock(c, b)
    \/ \E c \in Conns : RegisterBody(c)

\* every build id in use, the builds sharing a budget of MaxShared chunks
Next == NextFor(Ids, MaxShared)

Spec == Init /\ [][Next]_vars

----------------------------------------------------------------------------
(* deployHandler, lines 235-256 *)

\* the tag is derived from req.CommitID and docker run is started; it can
\* succeed only for a tag present in the local image store
Deploy(c, ok) ==
    /\ ok => DeployImageName(c) \in images
    /\ deployed' = [commit |-> c, image |-> DeployImageName(c), ok |-> ok]
    /\ UNCHANGED <<hpc, response, repoUrl, pc, proc, failedAt, commitID,
                   imageName, workspace, emitted, pipe, wpc, copyErr, mu,
                   clients, steps>>
    /\ UNCHANGED <<connVars, storeVars>>

\* the pipelines, their processes printing nothing and nobody subscribing,
\* and the deploy endpoint
NextDeploy ==
    \/ \E b \in Ids, url \in Urls : BuildRequest(b, url)
    \/ \E b \in Ids, ok \in BOOLEAN, dirLeft \in BOOLEAN : ProcExit(b, ok, dirLeft)
    \/ \E b \in Ids : CloneReturn(b)
    \/ \E b \in Ids, ok \in BOOLEAN, out \in CommitOutputs : ResolveCommit(b, ok, out)
    \/ \E b \in Ids : BuildReturn(b)
    \/ \E b \in Ids, ok \in BOOLEAN : Persist(b, ok)
    \/ \E b \in Ids, ok \in BOOLEAN : Cleanup(b, ok)
    \/ \E b \in Ids : CompleteLock(b)
    \/ \E b \in Ids : CompleteBody(b)
    \/ \E c \in DeployCommits, ok \in BOOLEAN : Deploy(c, ok)

SpecDeploy == Init /\ [][NextDeploy]_vars

\* one build, whose processes write up to MaxChunks chunks
NextOne == NextFor({1}, MaxChunks)

SpecOne == Init /\ [][NextOne]_vars

----------------------------------------------------------------------------
(* Vocabulary of the properties *)

Terminal(b) == pc[b] = "done"
Failed(b) == Terminal(b) /\ failedAt[b] # "none"
Completed(b) == Terminal(b) /\ failedAt[b] = "none"
Registered(c) == cpc[c] = "registered"
HasSentinel(c) == \E i \in 1..Len(received[c]) : received[c][i] = Sentinel
IsLog(m) == m.kind = "log"

\* the emission numbers of the chunks c received that were emitted after its
\* registration, in the order of arrival
RECURSIVE SeqsAfter(_, _)
SeqsAfter(r, n) ==
    IF r = <<>> THEN <<>>
    ELSE IF IsLog(Head(r)) /\ Head(r).seq > n
         THEN <<Head(r).seq>> \o SeqsAfter(Tail(r), n)
         ELSE SeqsAfter(Tail(r), n)

InPipe(b, k) == \E s \in Streams : \E i \in 1..Len(pipe[b][s]) : pipe[b][s][i] = k

----------------------------------------------------------------------------
\* C1: a subscriber registered for a build id before the pipeline reaches
\* CleaningUp has received BUILD_COMPLETE once the pipeline has ended,
\* Completed or Failed (the claim as stated).
C1_SentinelOnEveryPath ==
    \A c \in Conns :
        (Registered(c) /\ regEarly[c] /\ Terminal(target[c])) => HasSentinel(c)

\* C2: once the pipeline has reached its terminal state the workspace
\* directory of its build id does not exist (the claim as stated).
C2_WorkspaceGoneAtTerminal ==
    \A b \in Ids : Terminal(b) => ~workspace[b]

\* C3: a subscriber that registered while the pipeline runs and was not
\* replaced receives the chunks emitted after its registration in emission
\* order, each once, and none of those already copied is missing (the claim
\* as stated).
C3_ChunksInEmissionOrder ==
    \A c \in Conns :
        (Registered(c) /\ regEarly[c] /\ lastReg[target[c]] = c) =>
            LET q == SeqsAfter(received[c], regAt[c])
                b == target[c]
            IN /\ \A i, j \in 1..Len(q) : i < j => q[i] < q[j]
               /\ \A k \in (regAt[c] + 1)..emitted[b] :
                      ~InPipe(b, k) => \E i \in 1..Len(q) : q[i] = k

\* C6: once the pipeline has reached its terminal state the registry holds
\* no entry for its build id; stated for the entries registered before the
\* pipeline reached CleaningUp, which the claim covers in every interleaving.
C6_NoEntryAtTerminal ==
    \A b \in Ids :
        Terminal(b) => ~(\E c \in Conns : clients[b] = c /\ regEarly[c])

----------------------------------------------------------------------------
StepOk(b, name) ==
    \E j \in 1..Len(steps[b]) :
        steps[b][j].step = name /\ steps[b][j].exit = "ok"

\* C4: on every connection BUILD_COMPLETE is sent at most once and is the
\* last frame; the connection is then closed and no longer in the registry.
C4_SentinelOnceAndLast ==
    \A c \in Conns :
        \A i \in 1..Len(received[c]) :
            received[c][i] = Sentinel =>
                /\ i = Len(received[c])
                /\ closed[c]
                /\ clients[target[c]] # c

C4_Witness ==
    \E c \in Conns :
        /\ Len(received[c]) >= 2
        /\ IsLog(received[c][1])
        /\ received[c][Len(received[c])] = Sentinel

\* C5: a row of table builds exists for an id only if the clone, the commit
\* resolution and the image build of that id all succeeded; a failed
\* pipeline has no row.
C5_RecordOnlyAfterSuccess ==
    /\ \A i \in 1..Len(builds) :
           /\ StepOk(builds[i].id, "clone")
           /\ StepOk(builds[i].id, "resolve")
           /\ StepOk(builds[i].id, "build")
    /\ \A b \in Ids :
           Failed(b) => ~(\E i \in 1..Len(builds) : builds[i].id = b)

C5_Witness ==
    /\ builds # <<>>
    /\ Completed(builds[1].id)

\* C7: the registry holds only the connection registered last for an id,
\* and frames (chunks and the sentinel) and the close go to that
\* connection only: a replaced connection gets nothing further.
C7_LastRegistrationWins ==
    /\ [](\A b \in Ids : clients[b] \in {NoConn, lastReg[b]})
    /\ [][\A c \in Conns :
            (received'[c] # received[c] \/ closed'[c] # closed[c]) =>
                (Registered(c) /\ lastReg[target[c]] = c)]_vars

C7_Witness ==
    \E c, d \in Conns :
        /\ c # d /\ Registered(c) /\ Registered(d)
        /\ target[c] = target[d]
        /\ lastReg[target[d]] = d
        /\ received[c] # <<>> /\ ~HasSentinel(c) /\ ~closed[c]
        /\ Len(received[d]) >= 2 /\ HasSentinel(d)

\* C8: with no subscriber registered, Write reports success to the copier
\* and changes neither the registry nor any connection, and the result of
\* every step is the exit status of its process alone.
C8_DeliverWithoutSubscriber ==
    /\ [](\A b \in Ids :
            /\ ~copyErr[b]
            /\ \A j \in 1..Len(steps[b]) :
                   steps[b][j].err = (steps[b][j].exit = "fail"))
    /\ [][\A b \in Ids, s \in Streams :
            (wpc[b][s] = "locked" /\ wpc'[b][s] = "idle"
                /\ clients[b] = NoConn) =>
                (clients' = clients /\ received' = received
                    /\ closed' = closed)]_vars

C8_Witness ==
    \E b \in Ids :
        /\ Completed(b)
        /\ emitted[b] = MaxChunks
        /\ \A c \in Conns : cpc[c] = "none"

\* C9: the response can be encoded at any point of the pipeline, and it
\* carries the minted id and an empty commit whatever the pipeline has done.
C9_ImmediateResponse ==
    \A b \in Ids :
        /\ hpc[b] = "spawned" => ENABLED BuildRespond(b)
        /\ hpc[b] = "responded" =>
               response[b] = [BuildId |-> b, CommitID |-> <<>>]

C9_Witness ==
    \E b \in Ids :
        /\ hpc[b] = "responded"
        /\ response[b].CommitID = <<>>
        /\ commitID[b] # <<>>

----------------------------------------------------------------------------
\* the build whose store write succeeded last
LastPersisted(b) == persisted # <<>> /\ persisted[Len(persisted)] = b

\* the last-build query returns a record of b with the commit of b's tag
LastBuildIs(b) ==
    LET r == getLastBuild(builds)
    IN ~r.err /\ r.BuildId = b /\ BuildImageName(r.CommitID) = imageName[b]

\* C10 as stated: when the image build of b has succeeded and the pipeline
\* has ended, with no other build persisted after it, the last-build query
\* returns b and the commit of its image tag.
C10_RecordAfterImageBuild ==
    \A b \in Ids :
        (Terminal(b) /\ StepOk(b, "build")
            /\ (persisted = <<>> \/ LastPersisted(b))) => LastBuildIs(b)

\* C10 amended: when the image build and the store write of b have
\* succeeded and no later build has been persisted, the last-build query
\* returns b and the commit of its image tag, and that image was built.
C10_RecordAfterPersist ==
    \A b \in Ids :
        (StepOk(b, "build") /\ StepOk(b, "persist") /\ LastPersisted(b)) =>
            (LastBuildIs(b) /\ imageName[b] \in images)

C10_Witness ==
    /\ Len(persisted) = 2
    /\ persisted[1] # persisted[2]
    /\ commitID[persisted[1]] # commitID[persisted[2]]
    /\ LastBuildIs(persisted[2])

----------------------------------------------------------------------------
\* the step is one of pipeline b: of its goroutine, its process or a copier
PipelineStep(b) ==
    \/ pc'[b] # pc[b]
    \/ proc'[b] # proc[b]
    \/ wpc'[b] # wpc[b]
    \/ pipe'[b] # pipe[b]

RowsOf(tbl, d) == SelectSeq(tbl, LAMBDA r : r.id = d)

\* C11: a step of pipeline b leaves the workspace, the registry entry, the
\* subscribers' connections and the rows of every other build id unchanged.
C11_OwnResourcesOnly ==
    [][\A b \in Ids : PipelineStep(b) =>
          \A d \in Ids \ {b} :
              /\ workspace'[d] = workspace[d]
              /\ clients'[d] = clients[d]
              /\ RowsOf(builds', d) = RowsOf(builds, d)
              /\ \A c \in Conns :
                     target[c] = d =>
                         (received'[c] = received[c] /\ closed'[c] = closed[c])]_vars

C11_Witness ==
    \E b, d \in Ids :
        /\ b # d
        /\ Completed(b) /\ ~workspace[b] /\ StepOk(b, "cleanup")
        /\ \E c \in Conns : target[c] = b /\ HasSentinel(c)
        /\ pc[d] \in {"resolve", "build"} /\ workspace[d]
        /\ clients[d] # NoConn /\ ~closed[clients[d]]

----------------------------------------------------------------------------
\* C13: the tag the deploy step derives from a commit is the tag the
\* pipeline gave to the image it built from that commit.
C13_SameTag ==
    \A b \in Ids :
        (deployed # NoDeploy /\ imageName[b] # <<>>
            /\ deployed.commit = commitID[b]) => deployed.image = imageName[b]

C13_Witness ==
    \E b \in Ids :
        /\ StepOk(b, "build")
        /\ deployed.commit = commitID[b]
        /\ deployed.ok
        /\ deployed.image \in images

----------------------------------------------------------------------------
StepNames(b) == [j \in 1..Len(steps[b]) |-> steps[b][j].step]
StepFailed(b, name) ==
    \E j \in 1..Len(steps[b]) :
        steps[b][j].step = name /\ steps[b][j].exit = "fail"

AllSteps == <<"clone", "resolve", "build", "persist", "cleanup", "complete">>

\* C14: a pipeline whose image build succeeded ends having run persist,
\* cleanup and completion, whatever the store write and the removal
\* returned; the subscriber registered for it has the sentinel, is closed
\* and is out of the registry.
C14_StoreAndCleanupErrorsIgnored ==
    \A b \in Ids :
        (Terminal(b) /\ StepOk(b, "build")) =>
            /\ StepNames(b) = AllSteps
            /\ \A c \in Conns :
                   (Registered(c) /\ target[c] = b /\ regEarly[c]
                       /\ lastReg[b] = c) =>
                       (HasSentinel(c) /\ closed[c] /\ clients[b] # c)

C14_Witness ==
    \E b \in Ids, c \in Conns :
        /\ Terminal(b) /\ StepFailed(b, "persist") /\ StepFailed(b, "cleanup")
        /\ workspace[b] /\ builds = <<>>
        /\ Registered(c) /\ target[c] = b /\ regEarly[c]
        /\ HasSentinel(c) /\ closed[c] /\ clients[b] = NoConn

----------------------------------------------------------------------------
\* C15: the finished steps of a pipeline are an initial part of clone,
\* resolve, build, persist, cleanup, completion, each once; the step in
\* progress is the next one; a failed clone, resolve or build is the last
\* step of its pipeline.
C15_StrictStepOrder ==
    \A b \in Ids :
        LET n == Len(steps[b])
        IN /\ n <= Len(AllSteps)
           /\ \A j \in 1..n : steps[b][j].step = AllSteps[j]
           /\ \A j \in 1..n :
                  (steps[b][j].step \in {"clone", "resolve", "build"}
                      /\ steps[b][j].exit # "ok") => (j = n /\ Terminal(b))
           /\ pc[b] \in {"clone", "resolve", "build", "persist", "cleanup"} =>
                  AllSteps[n + 1] = pc[b]
           /\ pc[b] \in {"complete", "completeLocked"} => n = 5

C15_Witness ==
    \E b \in Ids :
        /\ Terminal(b)
        /\ StepNames(b) = <<"clone", "resolve", "build">>
        /\ StepOk(b, "clone") /\ StepOk(b, "resolve") /\ StepFailed(b, "build")

----------------------------------------------------------------------------
\* the goroutines inside a critical section, each named as mu names it
Holders ==
    {h \in {<<"write", b, s>> : b \in Ids, s \in Streams} :
        wpc[h[2]][h[3]] = "locked"}
    \cup {<<"complete", b, "">> : b \in {x \in Ids : pc[x] = "completeLocked"}}
    \cup {<<"register", c, "">> : c \in {x \in Conns : cpc[x] = "locked"}}

\* C16: a goroutine that is between its mu.Lock() and its mu.Unlock() is
\* the holder of mu, so at most one is; the registry and the connections
\* change only in a step of the holder; a closed connection gets no frame.
C16_RegistryUnderLock ==
    /\ [](\A h \in Holders : mu = h)
    /\ [][(clients' # clients \/ received' # received \/ closed' # closed)
            => (mu \in Holders /\ mu' = Free)]_vars
    /\ [][\A c \in Conns : closed[c] => received'[c] = received[c]]_vars

C16_Witness ==
    \E b \in Ids :
        /\ wpc[b]["stdout"] = "locked"
        /\ wpc[b]["stderr"] = "idle" /\ pipe[b]["stderr"] # <<>>
        /\ clients[b] # NoConn

----------------------------------------------------------------------------
\* the pipeline goroutine of b waits for an external process
Waiting(b) == pc[b] \in {"clone", "resolve", "build"}

\* C17: mu is held only by a goroutine inside a critical section, whose
\* next step, always possible, releases it; a pipeline goroutine waiting
\* for a process never holds it, and mu is free whenever no goroutine is
\* inside a critical section, whatever the other pipelines wait for.
C17_LockNotHeldAcrossWait ==
    /\ mu # Free => mu \in Holders
    /\ Holders = {} => mu = Free
    /\ \A b \in Ids :
           /\ Waiting(b) => mu # <<"complete", b, "">>
           /\ pc[b] = "completeLocked" => ENABLED CompleteBody(b)
           /\ \A s \in Streams :
                  wpc[b][s] = "locked" => ENABLED WriteBody(b, s)
    /\ \A c \in Conns : cpc[c] = "locked" => ENABLED RegisterBody(c)
    /\ \A b \in Ids :
           (mu = Free /\ pc[b] = "complete") => ENABLED CompleteLock(b)

C17_Witness ==
    \E b, d \in Ids :
        /\ b # d
        /\ Waiting(b) /\ proc[b] = "running"
        /\ pc[d] = "completeLocked" /\ mu = <<"complete", d, "">>
        /\ clients[d] # NoConn

----------------------------------------------------------------------------
\* c has received chunk k of its build
Got(c, k) ==
    \E i \in 1..Len(received[c]) :
        IsLog(received[c][i]) /\ received[c][i].seq = k

\* chunk k of build b has left the pipe: its Write call has returned
Written(b, k) == k \in 1..emitted[b] /\ ~InPipe(b, k)

\* the frame a step appends to c is the chunk of a Write call in its
\* critical section, for c's build, with c the registered entry
FromWrite(c) ==
    \E s \in Streams :
        /\ wpc[target[c]][s] = "locked"
        /\ clients[target[c]] = c
        /\ received'[c] = Append(received[c],
                                 Chunk(target[c], Head(pipe[target[c]][s]), s))

\* C18 as stated: a subscriber never receives a chunk that the process
\* emitted before the subscriber's registration.
C18_NoChunkFromBeforeRegistration ==
    \A c \in Conns : \A i \in 1..Len(received[c]) :
        IsLog(received[c][i]) => received[c][i].seq > regAt[c]

\* C18, amended: the registry buffers nothing.  A subscriber receives a chunk
\* only from a Write call that runs while it is the registered entry of the
\* chunk's build, so a connection has nothing before it registers; a Write
\* call that finds no entry changes no connection; and a chunk whose Write
\* call has returned is never delivered afterwards.
C18_DroppedNotBuffered ==
    /\ [](\A c \in Conns :
            /\ ~Registered(c) => received[c] = <<>>
            /\ \A i \in 1..Len(received[c]) :
                   IsLog(received[c][i]) =>
                       /\ received[c][i].build = target[c]
                       /\ Written(target[c], received[c][i].seq))
    /\ [][\A c \in Conns :
            (received'[c] # received[c]
                /\ IsLog(received'[c][Len(received'[c])]))
            => (Registered(c) /\ FromWrite(c))]_vars
    /\ [][\A b \in Ids, s \in Streams :
            (wpc[b][s] = "locked" /\ wpc'[b][s] = "idle"
                /\ clients[b] = NoConn)
            => received' = received]_vars
    /\ [][\A c \in Conns, b \in Ids, k \in 1..MaxChunks :
            (Written(b, k) /\ ~Got(c, k)) => ~Got(c, k)']_vars

\* the first chunk was written with no subscriber and reached nobody; the
\* subscriber registered since then has the second chunk only
C18_Witness ==
    \E c \in Conns :
        /\ Registered(c) /\ regAt[c] >= 1
        /\ Written(target[c], 1)
        /\ \A d \in Conns : ~Got(d, 1)
        /\ Got(c, 2)

----------------------------------------------------------------------------
\* C19: in every state where a subscriber has received BUILD_COMPLETE for
\* a build id, the record write and the workspace removal of that build have
\* both run, whatever their outcome, and the removal after the write.
C19_SentinelAfterPersistAndCleanup ==
    \A c \in Conns :
        HasSentinel(c) =>
            \E i, j \in 1..Len(steps[target[c]]) :
                /\ i < j
                /\ steps[target[c]][i].step = "persist"
                /\ steps[target[c]][j].step = "cleanup"

\* a subscriber has the sentinel of a build whose record write failed
C19_Witness ==
    \E c \in Conns :
        /\ HasSentinel(c)
        /\ StepFailed(target[c], "persist")
        /\ ~LastPersisted(target[c])

----------------------------------------------------------------------------
\* c has received a log chunk
HasLog(c) == \E i \in 1..Len(received[c]) : IsLog(received[c][i])

\* C20 as stated, for an id whose pipeline ended without a completion step:
\* its subscriber has received no log chunk.
C20_NoChunkWithoutCompletion ==
    \A c \in Conns : (Registered(c) /\ Failed(target[c])) => ~HasLog(c)

\* C20, amended.  A connection enters the registry with nothing received and
\* open.  Once the pipeline goroutine of its build id has returned, with or
\* without a completion step, a registered subscriber receives nothing more,
\* is not closed, and the entry of its id is not removed; so one that
\* registers after that receives no chunk and no sentinel.  A sentinel or a
\* close needs a completion step, which runs only after clone, resolve and
\* build all succeeded, and only the completion step removes an entry.  (A
\* subscriber registered while a pipeline that later fails is running does
\* receive the chunks written meanwhile.)
C20_LateSubscriberGetsNothing ==
    /\ [](\A c \in Conns :
            (HasSentinel(c) \/ closed[c]) =>
                /\ StepOk(target[c], "clone")
                /\ StepOk(target[c], "resolve")
                /\ StepOk(target[c], "build")
                /\ pc[target[c]] \in {"completeLocked", "done"}
                /\ failedAt[target[c]] = "none")
    /\ [][\A c \in Conns :
            (~Registered(c) /\ Registered(c)') =>
                /\ received'[c] = <<>> /\ ~closed'[c]
                /\ clients'[target'[c]] = c]_vars
    /\ [][\A c \in Conns :
            (Registered(c) /\ Terminal(target[c])) =>
                /\ received'[c] = received[c]
                /\ closed'[c] = closed[c]
                /\ clients[target[c]] # NoConn
                       => clients'[target[c]] # NoConn]_vars
    /\ [][\A b \in Ids :
            (clients[b] # NoConn /\ clients'[b] = NoConn)
                => pc[b] = "completeLocked"]_vars

\* c registered after the completion step of its build, which gave the
\* sentinel to d: c has nothing, is open and is the entry of the id
C20_Witness ==
    \E c, d \in Conns :
        /\ c # d /\ target[c] = target[d]
        /\ Registered(c) /\ Completed(target[c])
        /\ HasSentinel(d) /\ closed[d]
        /\ received[c] = <<>> /\ ~closed[c]
        /\ clients[target[c]] = c
====
